---------------------------- MODULE Spec2Model ----------------------------
(***************************************************************************)
(* A model of rubyvenv (src/rubyvenv.py).                                  *)
(*                                                                         *)
(*   Spec     callers of ensure_cache_file running interleaved             *)
(*   SpecSeq  one caller making ensure_cache_file calls one after another  *)
(*   SpecFs   as SpecSeq, the filesystem operations of ensure_cache_file    *)
(*            failing as well as the source                                *)
(*   SpecVer  _filename_to_version and _version_to_filename applied to     *)
(*            strings                                                      *)
(*   SpecCat  one call of get_prebuilt_versions or pick_version, the       *)
(*            listing page fed to GetsAHrefs one start tag at a time       *)
(*   SpecMain runs of main, one after another                              *)
(*   SpecTar  make_environment from tarfile.open on, for archives of any   *)
(*            member names                                                 *)
(*   SpecSh   a shell that sources bin/activate and calls                  *)
(*            deactivate_rubyvenv                                          *)
(*                                                                         *)
(* Paths are sequences of path components relative to the cache            *)
(* directory, strings are sequences of one-character strings.  The bytes   *)
(* a source stream delivers are opaque to the program: the i-th chunk of   *)
(* the stream opened by call number s is the token <<s, i>>, so that two   *)
(* file contents are equal exactly when they hold the same chunks of the   *)
(* same stream.                                                            *)
(***************************************************************************)
EXTENDS Integers, Sequences, FiniteSets, TLC

\* ------------------------------------------------------------------ bounds
\* callers that may run ensure_cache_file interleaved (Spec)
NumProcs == 2
\* calls made in an interleaved run (Spec)
MaxRaceCalls == 2
\* calls made in all; the calls of one sequential caller (SpecSeq)
MaxCalls == 3
\* chunks a source stream delivers at most
MaxChunks == 2
\* characters between the (possibly damaged) prefix and suffix of an input string
MaxVerLen == 2
\* conversions applied in a row to one input string (SpecVer)
MaxOps == 2
\* start tags of a listing page
MaxTags == 3
\* characters of a version token given to pick_version
MaxTokLen == 2
\* times a shell reads bin/activate
MaxSourcings == 3
\* runs of main, one after another
MaxRuns == 2
\* components of a member name, members of an archive (SpecTar)
MaxDepth == 3
MaxMembers == 2

Procs == 1..NumProcs
Streams == 1..MaxCalls

\* ------------------------------------------------------------------ strings
\* str.startswith
startswith(s, pre) == Len(s) >= Len(pre) /\ SubSeq(s, 1, Len(pre)) = pre

\* str.endswith
endswith(s, suf) ==
    Len(s) >= Len(suf) /\ SubSeq(s, Len(s) - Len(suf) + 1, Len(s)) = suf

\* a slice bound of Python: negative counts from the end, then clamped to 0..n
SliceIndex(i, n) ==
    IF i < 0 THEN (IF i + n < 0 THEN 0 ELSE i + n) ELSE (IF i > n THEN n ELSE i)

\* s[start:stop]
PySlice(s, start, stop) ==
    SubSeq(s, SliceIndex(start, Len(s)) + 1, SliceIndex(stop, Len(s)))

\* the outcome of a call: the value returned, or the exception raised
Returned(v) == [exc |-> "none", val |-> v]
Raised(e) == [exc |-> e, val |-> <<>>]

\* 'ruby-' and '.tar.bz2' (lines 172-174, 178)
PREFIX == <<"r", "u", "b", "y", "-">>
SUFFIX == <<".", "t", "a", "r", ".", "b", "z", "2">>

\* lines 171-174 with the suffix sliced one character short
filename_to_version_short(filename) ==
    IF ~endswith(filename, SUFFIX) THEN Raised("AssertionError")
    ELSE IF ~startswith(filename, PREFIX) THEN Raised("AssertionError")
    ELSE Returned(PySlice(filename, Len(PREFIX), -1 * (Len(SUFFIX) - 1)))

\* lines 171-174 without the assertion on the prefix
filename_to_version_unchecked(filename) ==
    IF ~endswith(filename, SUFFIX) THEN Raised("AssertionError")
    ELSE Returned(PySlice(filename, Len(PREFIX), -1 * Len(SUFFIX)))

\* lines 171-174
_filename_to_version(filename) ==
    IF ~endswith(filename, SUFFIX) THEN Raised("AssertionError")
    ELSE IF ~startswith(filename, PREFIX) THEN Raised("AssertionError")
    ELSE Returned(PySlice(filename, Len(PREFIX), -1 * Len(SUFFIX)))

\* lines 177-178
_version_to_filename(version) == PREFIX \o version \o SUFFIX

\* characters of the input strings
VerChars == {"2", ".", "-"}

\* all strings over a set of characters, up to a length
StringsUpTo(chars, n) == UNION {[1..k -> chars] : k \in 0..n}

\* 'ruby-' and '.tar.bz2', whole or cut short at either end
Heads ==
    {SubSeq(PREFIX, 1, k) : k \in 0..Len(PREFIX)}
        \cup {SubSeq(PREFIX, k, Len(PREFIX)) : k \in 1..Len(PREFIX)}
Tails ==
    {SubSeq(SUFFIX, 1, k) : k \in 0..Len(SUFFIX)}
        \cup {SubSeq(SUFFIX, k, Len(SUFFIX)) : k \in 1..Len(SUFFIX)}

\* the strings the conversions are applied to: file names that are well
\* formed, ones that lack part of the prefix or suffix, and short strings
VerInputs ==
    {h \o m \o t : h \in Heads, m \in StringsUpTo(VerChars, MaxVerLen), t \in Tails}

\* ---------------------------------------------------------------------- URLs
\* str.split(sep): the pieces between the separators, in order
RECURSIVE Split(_, _)
Split(s, sep) ==
    LET at == {i \in DOMAIN s : s[i] = sep}
    IN  IF at = {} THEN <<s>>
        ELSE LET i == CHOOSE k \in at : \A j \in at : k <= j
             IN  <<SubSeq(s, 1, i - 1)>> \o Split(SubSeq(s, i + 1, Len(s)), sep)

\* sep.join(parts)
RECURSIVE Join(_, _)
Join(parts, sep) ==
    IF parts = <<>> THEN <<>>
    ELSE IF Len(parts) = 1 THEN parts[1]
    ELSE parts[1] \o <<sep>> \o Join(Tail(parts), sep)

\* urllib.parse.scheme_chars, and the letters among them
Letters ==
    {"a", "b", "c", "d", "e", "f", "g", "h", "i", "j", "k", "l", "m",
     "n", "o", "p", "q", "r", "s", "t", "u", "v", "w", "x", "y", "z"}
SchemeChars ==
    Letters \cup {"0", "1", "2", "3", "4", "5", "6", "7", "8", "9", "+", "-", "."}

\* urlsplit: the url starts with a scheme, the text before its first ':'
HasScheme(url) ==
    LET at == {i \in DOMAIN url : url[i] = ":"}
    IN  /\ at # {}
        /\ LET i == CHOOSE k \in at : \A j \in at : k <= j
           IN  /\ i > 1
               /\ url[1] \in Letters
               /\ \A j \in 1..(i - 1) : url[j] \in SchemeChars

\* urljoin's loop over the segments: '..' pops, '.' is skipped
RECURSIVE ResolveDots(_, _)
ResolveDots(segments, resolved) ==
    IF segments = <<>> THEN resolved
    ELSE LET seg == Head(segments)
         IN  IF seg = <<".", ".">>
             THEN ResolveDots(Tail(segments),
                     IF resolved = <<>> THEN resolved
                     ELSE SubSeq(resolved, 1, Len(resolved) - 1))
             ELSE IF seg = <<".">>
             THEN ResolveDots(Tail(segments), resolved)
             ELSE ResolveDots(Tail(segments), Append(resolved, seg))

\* 'https://rvm.io' (line 102): scheme and host of every base url
RVM_ORIGIN == <<"h", "t", "t", "p", "s", ":", "/", "/", "r", "v", "m", ".", "i", "o">>
BINARIES == <<"/", "b", "i", "n", "a", "r", "i", "e", "s", "/">>

\* Platform.rvm_url (lines 99-103)
rvm_url(platform_info) ==
    RVM_ORIGIN \o BINARIES \o platform_info.name \o <<"/">>
        \o platform_info.version \o <<"/">> \o platform_info.arch \o <<"/">>

\* urllib.parse.urljoin(base, url) for a base RVM_ORIGIN \o path and a url
\* that has no '?', '#' or ';' and does not start with '//'
urljoin(base, url) ==
    IF url = <<>> THEN base
    ELSE IF HasScheme(url) THEN url
    ELSE
      LET bpath == SubSeq(base, Len(RVM_ORIGIN) + 1, Len(base))
          bsplit == Split(bpath, "/")
          base_parts ==
              IF bsplit[Len(bsplit)] # <<>>
              THEN SubSeq(bsplit, 1, Len(bsplit) - 1) ELSE bsplit
          joined == base_parts \o Split(url, "/")
          segments ==
              IF url[1] = "/" THEN Split(url, "/")
              ELSE <<joined[1]>>
                     \o SelectSeq(SubSeq(joined, 2, Len(joined) - 1),
                                  LAMBDA seg : seg # <<>>)
                     \o <<joined[Len(joined)]>>
          resolved0 == ResolveDots(segments, <<>>)
          resolved_path ==
              IF segments[Len(segments)] \in {<<".">>, <<".", ".">>}
              THEN Append(resolved0, <<>>) ELSE resolved0
          path0 == Join(resolved_path, "/")
          path == IF path0 = <<>> THEN <<"/">>
                  ELSE IF path0[1] # "/" THEN <<"/">> \o path0 ELSE path0
      IN  RVM_ORIGIN \o path

\* lines 181-184
_download_url(platform_info, version) ==
    urljoin(rvm_url(platform_info), _version_to_filename(version))

\* ------------------------------------------------------- the listing page
\* Python's None where a str may stand: no string of characters
PyNone == <<"None">>

\* hrefs of the listing pages (tests/rubyvenv_test.py lines 110-118), one
\* archive of another format, and the empty href
HREF_UP == <<".", ".", "/">>
HREF_1 == <<"r", "u", "b", "y", "-", "1", ".", "t", "a", "r", ".", "b", "z", "2">>
HREF_2 == <<"r", "u", "b", "y", "-", "2", ".", "t", "a", "r", ".", "b", "z", "2">>
HREF_GZ == <<"r", "u", "b", "y", "-", "2", ".", "t", "a", "r", ".", "g", "z">>

Anchor(attrs) == [tag |-> "a", attrs |-> attrs]

\* the start tags html.parser hands to handle_starttag: (tag, attrs), attrs
\* a list of (name, value) pairs, the value None for a bare attribute
TagEvents ==
    { Anchor(<< <<"href", HREF_UP>> >>),
      Anchor(<< <<"href", HREF_1>> >>),
      Anchor(<< <<"href", HREF_2>> >>),
      Anchor(<< <<"href", HREF_GZ>> >>),
      Anchor(<< <<"href", <<>> >> >>),
      Anchor(<< <<"href", PyNone>> >>),
      Anchor(<< <<"name", HREF_1>> >>),
      Anchor(<< <<"href", HREF_1>>, <<"href", HREF_2>> >>),
      [tag |-> "link", attrs |-> << <<"href", HREF_1>> >>] }

\* dict(attrs)[key]: the value of the last pair with that name, or KeyError
DictGet(attrs, key) ==
    LET at == {i \in DOMAIN attrs : attrs[i][1] = key}
    IN  IF at = {} THEN Raised("KeyError")
        ELSE Returned(attrs[CHOOSE i \in at : \A j \in at : j <= i][2])

\* lines 151-157 without the test of the tag
handle_starttag_anytag(hrefs_, tag, attrs) ==
    LET v == DictGet(attrs, "href")
    IN  IF v.exc # "none" THEN Raised(v.exc)
        ELSE Returned(Append(hrefs_, v.val))

\* GetsAHrefs.handle_starttag (lines 151-157): self.hrefs afterwards, or the
\* exception
handle_starttag(hrefs_, tag, attrs) ==
    IF tag = "a"
    THEN LET v == DictGet(attrs, "href")
         IN  IF v.exc # "none" THEN Raised(v.exc)
             ELSE Returned(Append(hrefs_, v.val))
    ELSE Returned(hrefs_)

\* Version (lines 106-108)
Version(version, url) == [version |-> version, url |-> url]

\* line 198 without the test of the prefix
keeps_href_any(href) == href # PyNone

\* line 198: the condition of the generator
keeps_href(href) == href # PyNone /\ startswith(href, PREFIX)

\* lines 192-199: the tuple built from parser.hrefs, or the exception of the
\* first href that _filename_to_version refuses
RECURSIVE prebuilt_versions(_, _)
prebuilt_versions(url, hs) ==
    IF hs = <<>> THEN Returned(<<>>)
    ELSE LET href == Head(hs)
         IN  IF keeps_href(href)
             THEN LET v == _filename_to_version(href)
                      rest == prebuilt_versions(url, Tail(hs))
                  IN  IF v.exc # "none" THEN Raised(v.exc)
                      ELSE IF rest.exc # "none" THEN rest
                      ELSE Returned(<<Version(v.val, urljoin(url, href))>> \o rest.val)
             ELSE prebuilt_versions(url, Tail(hs))

\* 'latest' (line 218)
LATEST == <<"l", "a", "t", "e", "s", "t">>

\* version tokens given to pick_version
TokChars == {"2", ".", "/", ":"}
Tokens == {LATEST} \cup StringsUpTo(TokChars, MaxTokLen)

\* get_platform_info() (lines 142-143): distro.id(), distro.version(),
\* platform.machine(); distro.version() is '' where the distribution has none
Platforms ==
    { [name |-> <<"u", "b", "u", "n", "t", "u">>, version |-> v, arch |-> <<"x", "8", "6", "_", "6", "4">>] : v \in {<<"1", "6", ".", "0", "4">>, <<>>} }

\* ------------------------------------------------------ the shell script
\* a shell variable that is not set
Unset == "unset"

\* the variables the script reads or writes (lines 30-91)
ShellVars ==
    {"PATH", "PS1", "GEM_HOME", "RUBYVENV",
     "_OLD_RUBYVENV_PATH", "_OLD_RUBYVENV_PS1", "_OLD_RUBYVENV_GEM_HOME"}

\* pipes.quote: the characters that need no quoting, of those that occur here
SafeChars == Letters \cup {"/", ".", "-", ":"}

\* str.replace(old, new) for a one-character old
RECURSIVE Replace(_, _, _)
Replace(s, old, new) ==
    IF s = <<>> THEN <<>>
    ELSE (IF Head(s) = old THEN new ELSE <<Head(s)>>) \o Replace(Tail(s), old, new)

\* pipes.quote without any quoting
quote_verbatim(s) == s

\* pipes.quote(s) (line 226): s as one shell word
quote(s) ==
    IF s = <<>> THEN <<"'", "'">>
    ELSE IF \A i \in DOMAIN s : s[i] \in SafeChars THEN s
    ELSE <<"'">> \o Replace(s, "'", <<"'", "\"", "'", "\"", "'">>) \o <<"'">>

\* the shell's reading of the word after 'RUBYVENV=' (line 68): quotes are
\* removed, an unquoted blank ends the word
RECURSIVE ShellWord(_, _, _)
ShellWord(w, mode, acc) ==
    IF w = <<>> THEN acc
    ELSE LET c == Head(w)
         IN  IF mode = "none"
             THEN IF c = "'" THEN ShellWord(Tail(w), "single", acc)
                  ELSE IF c = "\"" THEN ShellWord(Tail(w), "double", acc)
                  ELSE IF c = " " THEN acc
                  ELSE ShellWord(Tail(w), mode, Append(acc, c))
             ELSE IF mode = "single"
             THEN IF c = "'" THEN ShellWord(Tail(w), "none", acc)
                  ELSE ShellWord(Tail(w), mode, Append(acc, c))
             ELSE IF c = "\"" THEN ShellWord(Tail(w), "none", acc)
                  ELSE ShellWord(Tail(w), mode, Append(acc, c))

\* basename "$RUBYVENV" (line 83): trailing slashes dropped, then the text
\* after the last slash; '/' for a string of slashes
RECURSIVE basename(_)
basename(path) ==
    IF path = <<>> THEN <<>>
    ELSE IF \A i \in DOMAIN path : path[i] = "/" THEN <<"/">>
    ELSE IF path[Len(path)] = "/" THEN basename(SubSeq(path, 1, Len(path) - 1))
    ELSE LET parts == Split(path, "/") IN parts[Len(parts)]

\* the state of a shell: variables, export attributes, the function
Shell(env, exported, fn) == [env |-> env, exported |-> exported, fn |-> fn]

\* VAR=value; export VAR
SetExport(sh, var, value) ==
    [sh EXCEPT !.env[var] = value, !.exported = @ \cup {var}]

\* VAR=value
SetVar(sh, var, value) == [sh EXCEPT !.env[var] = value]

\* unset VAR
UnsetVar(sh, var) == [sh EXCEPT !.env[var] = Unset, !.exported = @ \ {var}]

\* "$VAR" where the variable may be unset and set -u is off: the empty string
Expand(sh, var) == IF sh.env[var] = Unset THEN <<>> ELSE sh.env[var]

\* lines 33-37, 46-50, 52-56: if the backup is declared, restore from it
RestoreFrom(sh, var, backup) ==
    IF sh.env[backup] # Unset
    THEN UnsetVar(SetExport(sh, var, sh.env[backup]), backup)
    ELSE sh

\* a deactivate_rubyvenv that restores nothing
deactivate_keep(sh, arg) ==
    LET d == UnsetVar(UnsetVar(UnsetVar(UnsetVar(sh, "_OLD_RUBYVENV_PATH"),
                 "_OLD_RUBYVENV_PS1"), "_OLD_RUBYVENV_GEM_HOME"), "RUBYVENV")
    IN  IF arg # "nondestructive" THEN [d EXCEPT !.fn = FALSE] ELSE d

\* deactivate_rubyvenv (lines 30-63)
deactivate_rubyvenv(sh, arg) ==
    LET a == RestoreFrom(sh, "PATH", "_OLD_RUBYVENV_PATH")
        b == RestoreFrom(a, "PS1", "_OLD_RUBYVENV_PS1")
        c == RestoreFrom(b, "GEM_HOME", "_OLD_RUBYVENV_GEM_HOME")
        d == UnsetVar(c, "RUBYVENV")
    IN  IF arg # "nondestructive" THEN [d EXCEPT !.fn = FALSE] ELSE d

BIN == <<"/", "b", "i", "n">>
GEMS == <<"/", "l", "i", "b", "/", "g", "e", "m", "s">>
GEMS_BIN == <<"/", "l", "i", "b", "/", "g", "e", "m", "s", "/", "b", "i", "n">>

\* bin/activate without the call at line 66
reset_skipped(sh) == [sh EXCEPT !.fn = TRUE]

\* lines 30-66: the function is defined, then called with 'nondestructive'
reset(sh) == deactivate_rubyvenv([sh EXCEPT !.fn = TRUE], "nondestructive")

\* lines 68-69, DIRECTORY replaced by pipes.quote(dest) (line 226)
set_rubyvenv(sh, dest) ==
    SetExport(sh, "RUBYVENV", ShellWord(quote(dest), "none", <<>>))

\* lines 71-73: PATH is backed up and extended
activate_path(sh) ==
    LET R == sh.env["RUBYVENV"]
        a == SetVar(sh, "_OLD_RUBYVENV_PATH", Expand(sh, "PATH"))
    IN  SetExport(a, "PATH",
            R \o BIN \o <<":">> \o R \o GEMS_BIN \o <<":">> \o Expand(sh, "PATH"))

\* lines 82-84: PS1 is backed up and prefixed
activate_ps1(sh) ==
    LET a == SetVar(sh, "_OLD_RUBYVENV_PS1", Expand(sh, "PS1"))
    IN  SetExport(a, "PS1",
            <<"(">> \o basename(a.env["RUBYVENV"]) \o <<")", " ">> \o Expand(sh, "PS1"))

\* SET_GEM_HOME (lines 87-91)
set_gem_home(sh) ==
    LET a == SetVar(sh, "_OLD_RUBYVENV_GEM_HOME", Expand(sh, "GEM_HOME"))
    IN  SetExport(a, "GEM_HOME", a.env["RUBYVENV"] \o GEMS)

\* bin/activate read by the shell: the shell afterwards; under set -u the
\* script stops at the line that reads an unset variable (line 71 reads
\* "$PATH", line 82 reads "$PS1")
ACTIVATE(sh, dest, withMore, strict) ==
    LET b == set_rubyvenv(reset(sh), dest)
    IN  IF strict /\ b.env["PATH"] = Unset
        THEN [sh |-> b, aborted |-> TRUE]
        ELSE LET c == activate_path(b)
             IN  IF strict /\ c.env["PS1"] = Unset
                 THEN [sh |-> c, aborted |-> TRUE]
                 ELSE LET d == activate_ps1(c)
                      IN  [sh |-> IF withMore THEN set_gem_home(d) ELSE d,
                           aborted |-> FALSE]

\* values a variable of the invoking shell may hold before the script is read
PathValues == {Unset, <<>>, <<"/", "u", "s", "r", "/", "b", "i", "n">>}
Ps1Values == {Unset, <<>>, <<"$", " ">>}
GemHomeValues == {Unset, <<>>, <<"/", "g">>}

\* absolute destination directories (line 285)
Dests == {<<"/">>, <<"/", "v">>, <<"/", "v", "/", "e">>, <<"/", "v", " ", "e">>, <<"/", "v", "'", "e">>}

\* ---------------------------------------------------------------- the cache
Absent == "absent"
None == "None"

\* relative paths handed to ensure_cache_file (tests: 'test.txt', 'dir/test.txt'),
\* as sequences of components
TEST_TXT == <<"t", "e", "s", "t", ".", "t", "x", "t">>
DIR == <<"d", "i", "r">>
RelPaths == {<<TEST_TXT>>, <<DIR, TEST_TXT>>}

\* ------------------------------------------------------------ the installer
\* '--ruby system' (line 286)
SYSTEM == <<"s", "y", "s", "t", "e", "m">>

\* the platform get_platform_info reports on the machine main runs on
MainPlatforms == {pl \in Platforms : pl.version # <<>>}

\* version tokens given as --ruby, besides 'latest' and 'system'
MainVersions == {<<"2">>, <<"2", ".", "t", "a", "r", ".", "b", "z", "2", "/", "x">>}
Rubies == {LATEST, SYSTEM} \cup MainVersions

\* the start tags of the listing pages main is run against
MainTagEvents == {Anchor(<<<<"href", HREF_2>>>>)}

\* lines 232-235 and 123: the components of the archive's path under the
\* cache directory
cache_file(platform_info, version) ==
    Split(platform_info.name \o <<"/">> \o platform_info.version \o <<"/">>
            \o platform_info.arch \o <<"/">> \o _version_to_filename(version), "/")

ArchivePaths == {cache_file(pl, v) : pl \in MainPlatforms, v \in MainVersions}

\* DEST_DIR as given on the command line: not given, empty, a directory
DestArgs == {PyNone, <<>>, <<"/", "v">>}

\* sub in s
Contains(s, sub) ==
    \E i \in 1..(Len(s) - Len(sub) + 1) : SubSeq(s, i, i + Len(sub) - 1) = sub

SLASH_CACHE == <<"/", "c", "a", "c", "h", "e">>
SLASH_CACHE_SLASH == <<"/", "c", "a", "c", "h", "e", "/">>

\* a filter that keeps every member
keeps_member_all(name) == TRUE

\* a filter that only looks at the end of the name
keeps_member_end(name) == ~endswith(name, SLASH_CACHE)

\* lines 243-247: the condition of the list comprehension
keeps_member(name) ==
    /\ ~endswith(name, SLASH_CACHE)
    /\ ~Contains(name, SLASH_CACHE_SLASH)

\* lines 252-255: the member's new name
strip_first_segment(name) ==
    IF \E i \in DOMAIN name : name[i] = "/"
    THEN LET i == CHOOSE k \in DOMAIN name :
                     name[k] = "/" /\ \A j \in 1..(k - 1) : name[j] # "/"
         IN  SubSeq(name, i + 1, Len(name))
    ELSE <<>>

\* lines 243-255: the names of the members handed to extractall
extract_names(ms) ==
    LET kept == SelectSeq(ms, keeps_member)
    IN  [i \in 1..Len(kept) |-> strip_first_segment(kept[i])]

\* the path under dest that a member of this name is extracted to
PathOf(name) == SelectSeq(Split(name, "/"), LAMBDA c : c # <<>>)

\* path components of member names
CACHE == <<"c", "a", "c", "h", "e">>
Components == {<<"r">>, CACHE}

\* member names of up to n components, two in which 'cache' is only a part
\* of a component, and the bin directory
MemberNames(n) ==
    {Join(cs, "/") : cs \in UNION {[1..k -> Components] : k \in 1..n}}
        \cup {<<"r", "/", "x", "c", "a", "c", "h", "e">>, <<"r", "/", "c", "a", "c", "h", "e", "x", "/", "r">>, <<"r", "/", "b", "i", "n">>}

\* the archives main is run against
MainArchives ==
    { <<<<"r">>, <<"r", "/", "b", "i", "n">>, <<"r", "/", "c", "a", "c", "h", "e">>>>, <<<<"r">>, <<"r", "/", "l", "i", "b">>>> }

\* dest/bin and dest/bin/activate (line 225), relative to dest
BIN_DIR == <<<<"b", "i", "n">>>>
BIN_ACTIVATE == <<<<"b", "i", "n">>, <<"a", "c", "t", "i", "v", "a", "t", "e">>>>

\* what tarfile.open made of the bytes of a stream: not opened yet, no
\* archive, an archive with these members
Unread == [kind |-> "unread", members |-> <<>>]
Bad == [kind |-> "bad", members |-> <<>>]
Archive(ms) == [kind |-> "archive", members |-> ms]

\* the paths under the cache directory that a file may be at
CachePaths == RelPaths \cup ArchivePaths

\* os.path.join(cache_dir, 'tmp'), relative to the cache directory
tmpdir == <<<<"t", "m", "p">>>>

\* os.path.dirname(path)
dirname(path) == SubSeq(path, 1, Len(path) - 1)

\* a directory and all its ancestors, the cache directory <<>> included
Ancestors(d) == {SubSeq(d, 1, k) : k \in 0..Len(d)}

\* os.makedirs that takes no notice of exist_ok
makedirsStrict(ds, name, exist_ok) ==
    IF name \in ds
    THEN [err |-> "FileExistsError", dirs |-> ds]
    ELSE [err |-> "none", dirs |-> ds \cup Ancestors(name)]

\* os.makedirs(name, exist_ok): the directories afterwards, or the error
makedirs(ds, name, exist_ok) ==
    IF name \in ds /\ ~exist_ok
    THEN [err |-> "FileExistsError", dirs |-> ds]
    ELSE [err |-> "none", dirs |-> ds \cup Ancestors(name)]

\* what is on disk under the cache directory
Tree(fs, ds, ts) == [files |-> fs, dirs |-> ds, tmp |-> ts]

\* the first k chunks of stream s
Chunks(s, k) == [i \in 1..k |-> <<s, i>>]

VARIABLES
    pc,       \* pc[p]: where caller p is in ensure_cache_file
    rel,      \* rel[p]: the relpath argument of p's current call
    sid,      \* sid[p]: the number of p's current call; names its stream and temp file
    opened,   \* opened[p]: how often the current call invoked get_fileobj
    nread,    \* nread[p]: chunks the source stream delivered in the current call
    exc,      \* exc[p]: the exception in flight or raised, "none" otherwise
    ret,      \* ret[p]: the returned path, None otherwise
    files,    \* files[r]: content of cache_dir/r, Absent when there is no file
    dirs,     \* directories that exist under (and including) the cache directory
    tmp,      \* tmp[s]: content of the temp file of call s in cache_dir/tmp
    calls,    \* number of calls made so far
    eofAt,    \* eofAt[s]: chunks stream s had delivered when it ended, -1 before
    before    \* before[p]: files, directories and temp files when p's call began (SpecFs)

cacheVars ==
    <<pc, rel, sid, opened, nread, exc, ret, files, dirs, tmp, calls, eofAt, before>>

VARIABLES
    vorig,    \* the string the conversions started from
    vcur,     \* the outcome of the last conversion: Returned(string) or Raised(..)
    vtrace    \* the conversions applied so far, in order

verVars == <<vorig, vcur, vtrace>>

VARIABLES
    cpc,      \* where the catalog call is: idle, feed, done, raised
    caller,   \* "list": get_prebuilt_versions was called, "pick": pick_version
    plat,     \* platform_info
    token,    \* the version argument of pick_version
    doc,      \* the start tags of the fetched page that parser.feed has handled
    hrefs,    \* parser.hrefs
    fetches,  \* calls of urllib.request.urlopen
    cexc,     \* the exception raised, "none" otherwise
    versions, \* the tuple get_prebuilt_versions returned
    picked    \* <<v>>: pick_version returned v; <<>>: it has not returned

catVars == <<cpc, caller, plat, token, doc, hrefs, fetches, cexc, versions, picked>>

VARIABLES
    shenv,    \* shenv[v]: the value of shell variable v, Unset when it has none
    shexp,    \* the shell variables that carry the export attribute
    shfn,     \* TRUE when the function deactivate_rubyvenv is defined
    shst,     \* inactive, active, aborted (sourcing stopped at an unbound variable)
    nounset,  \* TRUE when the shell runs under set -u
    more,     \* TRUE when bin/activate was written with more=SET_GEM_HOME
    shdest,   \* the dest that _write_activate was given
    nsrc,     \* times bin/activate was sourced since the shell was last inactive
    nsrcAll,  \* times bin/activate was sourced in all
    shenv0,   \* shenv as it was before the first of these sourcings
    shenv1    \* shenv as it was after the first of these sourcings

shVars == <<shenv, shexp, shfn, shst, nounset, more, shdest, nsrc, nsrcAll, shenv0, shenv1>>

VARIABLES
    mpc,      \* where the run of main is: idle, catalog, ensure, tar, extract,
              \* activate, exited
    runs,     \* runs of main started so far
    margs,    \* args: dest, ruby, list_versions
    mexit,    \* how the run ended: None (it has not), "0", "2", "raised"
    mexc,     \* the exception or usage message the run ended with
    lookups,  \* calls of get_platform_info in this run
    tars,     \* tars[s]: what tarfile.open made of the bytes stream s delivered
    members,  \* tar_file.getmembers(): the names of the members, in order
    names,    \* the members handed to extractall, by their new names
    nextr,    \* extractall: members extracted so far
    dtree,    \* the paths that exist in the destination, <<>> for dest itself
    dact      \* bin/activate of the destination: written by which run, with more

mainVars ==
    <<mpc, runs, margs, mexit, mexc, lookups, tars, members, names, nextr, dtree, dact>>

vars == <<cacheVars, verVars, catVars, shVars, mainVars>>

\* what the steps of ensure_cache_file leave alone
notCache == <<verVars, catVars, shVars, mainVars>>

\* os.path.isdir in the place of os.path.exists
existsDirOnly(path) == path \in dirs

\* os.path.exists(path): a file or a directory
exists(path) == files[path] # Absent \/ path \in dirs

\* tempfile.NamedTemporaryFile(dir=tmpdir, delete=False): dst.name
dstName(p) == sid[p]

\* directories a cache can hold before a call: closed under parents
InitDirs ==
    { {}, {<<>>}, {<<>>, <<DIR>>}, {<<>>, tmpdir}, {<<>>, <<DIR>>, tmpdir} }

CacheInitWith(ds) ==
    /\ pc = [p \in Procs |-> "idle"]
    /\ rel = [p \in Procs |-> <<>>]
    /\ sid = [p \in Procs |-> 0]
    /\ opened = [p \in Procs |-> 0]
    /\ nread = [p \in Procs |-> 0]
    /\ exc = [p \in Procs |-> "none"]
    /\ ret = [p \in Procs |-> None]
    /\ files = [r \in CachePaths |-> Absent]
    /\ dirs = ds
    /\ tmp = [s \in Streams |-> Absent]
    /\ calls = 0
    /\ eofAt = [s \in Streams |-> -1]
    /\ before = [p \in Procs |-> Tree(files, dirs, tmp)]

CacheInit == \E ds \in InitDirs : CacheInitWith(ds)

\* lines 118-125: entry, and the existence check
Enter(p, r) ==
    /\ pc[p] \in {"idle", "returned", "raised"}
    /\ calls < MaxCalls
    /\ calls' = calls + 1
    /\ sid' = [sid EXCEPT ![p] = calls + 1]
    /\ rel' = [rel EXCEPT ![p] = r]
    /\ opened' = [opened EXCEPT ![p] = 0]
    /\ nread' = [nread EXCEPT ![p] = 0]
    /\ exc' = [exc EXCEPT ![p] = "none"]
    /\ IF exists(r)
       THEN /\ pc' = [pc EXCEPT ![p] = "returned"]
            /\ ret' = [ret EXCEPT ![p] = r]
       ELSE /\ pc' = [pc EXCEPT ![p] = "makedirs"]
            /\ ret' = [ret EXCEPT ![p] = None]
    /\ UNCHANGED <<files, dirs, tmp, eofAt>>

\* a call of ensure_cache_file
Call(p, r) == Enter(p, r) /\ UNCHANGED before /\ UNCHANGED notCache

\* a call of ensure_cache_file, what is on disk at its entry noted in before
CallNoting(p, r) ==
    /\ Enter(p, r)
    /\ before' = [before EXCEPT ![p] = Tree(files, dirs, tmp)]
    /\ UNCHANGED notCache

\* lines 127-130: the parent directory, then the staging directory
MakeDirs(p) ==
    /\ pc[p] = "makedirs"
    /\ LET a == makedirs(dirs, dirname(rel[p]), TRUE)
           b == makedirs(a.dirs, tmpdir, TRUE)
       IN  IF a.err # "none" \/ b.err # "none"
           THEN /\ dirs' = a.dirs
                /\ exc' = [exc EXCEPT ![p] = IF a.err # "none" THEN a.err ELSE b.err]
                /\ pc' = [pc EXCEPT ![p] = "raised"]
           ELSE /\ dirs' = b.dirs
                /\ exc' = exc
                /\ pc' = [pc EXCEPT ![p] = "mktemp"]
    /\ UNCHANGED <<rel, sid, opened, nread, ret, files, tmp, calls, eofAt, before>>
    /\ UNCHANGED notCache

\* line 132: a new, uniquely named, empty file in the staging directory
MkTemp(p) ==
    /\ pc[p] = "mktemp"
    /\ tmp' = [tmp EXCEPT ![dstName(p)] = <<>>]
    /\ pc' = [pc EXCEPT ![p] = "open"]
    /\ UNCHANGED <<rel, sid, opened, nread, exc, ret, files, dirs, calls, eofAt, before>>
    /\ UNCHANGED notCache

\* line 133: get_fileobj() returns a stream
OpenSrc(p) ==
    /\ pc[p] = "open"
    /\ opened' = [opened EXCEPT ![p] = @ + 1]
    /\ pc' = [pc EXCEPT ![p] = "copy"]
    /\ UNCHANGED <<rel, sid, nread, exc, ret, files, dirs, tmp, calls, eofAt, before>>
    /\ UNCHANGED notCache

\* line 133: get_fileobj() raises
OpenRaise(p) ==
    /\ pc[p] = "open"
    /\ opened' = [opened EXCEPT ![p] = @ + 1]
    /\ exc' = [exc EXCEPT ![p] = "OpenError"]
    /\ pc' = [pc EXCEPT ![p] = "except"]
    /\ UNCHANGED <<rel, sid, nread, ret, files, dirs, tmp, calls, eofAt, before>>
    /\ UNCHANGED notCache

\* copying straight into the final path, without a temp file
CopyChunkInPlace(p) ==
    /\ pc[p] = "copy"
    /\ nread[p] < MaxChunks
    /\ nread' = [nread EXCEPT ![p] = @ + 1]
    /\ files' = [files EXCEPT ![rel[p]] =
                    Append(IF @ = Absent THEN <<>> ELSE @, <<sid[p], nread[p] + 1>>)]
    /\ UNCHANGED <<pc, rel, sid, opened, exc, ret, tmp, dirs, calls, eofAt, before>>
    /\ UNCHANGED notCache

\* line 134: shutil.copyfileobj reads a chunk and writes it to dst
CopyChunk(p) ==
    /\ pc[p] = "copy"
    /\ nread[p] < MaxChunks
    /\ nread' = [nread EXCEPT ![p] = @ + 1]
    /\ tmp' = [tmp EXCEPT ![dstName(p)] = Append(@, <<sid[p], nread[p] + 1>>)]
    /\ UNCHANGED <<pc, rel, sid, opened, exc, ret, files, dirs, calls, eofAt, before>>
    /\ UNCHANGED notCache

\* lines 132-134: the stream ends; both with-blocks close src and dst
CopyEOF(p) ==
    /\ pc[p] = "copy"
    /\ eofAt' = [eofAt EXCEPT ![sid[p]] = nread[p]]
    /\ pc' = [pc EXCEPT ![p] = "rename"]
    /\ UNCHANGED <<rel, sid, opened, nread, exc, ret, files, dirs, tmp, calls, before>>
    /\ UNCHANGED notCache

\* line 134: src.read raises
CopyRaise(p) ==
    /\ pc[p] = "copy"
    /\ exc' = [exc EXCEPT ![p] = "BoomError"]
    /\ pc' = [pc EXCEPT ![p] = "except"]
    /\ UNCHANGED <<rel, sid, opened, nread, ret, files, dirs, tmp, calls, eofAt, before>>
    /\ UNCHANGED notCache

\* re-raising without os.remove
CleanupNoRemove(p) ==
    /\ pc[p] = "except"
    /\ pc' = [pc EXCEPT ![p] = "raised"]
    /\ UNCHANGED <<rel, sid, opened, nread, exc, ret, files, dirs, tmp, calls, eofAt, before>>
    /\ UNCHANGED notCache

\* a finally in the place of the except: the partial temp file is renamed
\* into place before the exception goes on
CleanupCommit(p) ==
    /\ pc[p] = "except"
    /\ files' = [files EXCEPT ![rel[p]] = tmp[dstName(p)]]
    /\ tmp' = [tmp EXCEPT ![dstName(p)] = Absent]
    /\ pc' = [pc EXCEPT ![p] = "raised"]
    /\ UNCHANGED <<rel, sid, opened, nread, exc, ret, dirs, calls, eofAt, before>>
    /\ UNCHANGED notCache

\* shutil.rmtree(tmpdir) in the place of os.remove(dst.name)
CleanupRmtree(p) ==
    /\ pc[p] = "except"
    /\ tmp' = [s \in Streams |-> Absent]
    /\ dirs' = dirs \ {tmpdir}
    /\ pc' = [pc EXCEPT ![p] = "raised"]
    /\ UNCHANGED <<rel, sid, opened, nread, exc, ret, files, calls, eofAt, before>>
    /\ UNCHANGED notCache

\* lines 135-137: os.remove(dst.name); raise
Cleanup(p) ==
    /\ pc[p] = "except"
    /\ tmp' = [tmp EXCEPT ![dstName(p)] = Absent]
    /\ pc' = [pc EXCEPT ![p] = "raised"]
    /\ UNCHANGED <<rel, sid, opened, nread, exc, ret, files, dirs, calls, eofAt, before>>
    /\ UNCHANGED notCache

\* lines 138-139: os.rename(dst.name, path); return path
Rename(p) ==
    /\ pc[p] = "rename"
    /\ files' = [files EXCEPT ![rel[p]] = tmp[dstName(p)]]
    /\ tmp' = [tmp EXCEPT ![dstName(p)] = Absent]
    /\ ret' = [ret EXCEPT ![p] = rel[p]]
    /\ pc' = [pc EXCEPT ![p] = "returned"]
    /\ UNCHANGED <<rel, sid, opened, nread, exc, dirs, calls, eofAt, before>>
    /\ UNCHANGED notCache

\* line 132: tempfile.NamedTemporaryFile raises; dst was never bound, so
\* os.remove(dst.name) at line 136 raises in its turn
MkTempRaise(p) ==
    /\ pc[p] = "mktemp"
    /\ exc' = [exc EXCEPT ![p] = "UnboundLocalError"]
    /\ pc' = [pc EXCEPT ![p] = "raised"]
    /\ UNCHANGED <<rel, sid, opened, nread, ret, files, dirs, tmp, calls, eofAt, before>>
    /\ UNCHANGED notCache

\* line 132: leaving the with-block, dst.close() raises (the last bytes
\* could not be written)
CloseRaise(p) ==
    /\ pc[p] = "copy"
    /\ eofAt' = [eofAt EXCEPT ![sid[p]] = nread[p]]
    /\ exc' = [exc EXCEPT ![p] = "OSError"]
    /\ pc' = [pc EXCEPT ![p] = "except"]
    /\ UNCHANGED <<rel, sid, opened, nread, ret, files, dirs, tmp, calls, before>>
    /\ UNCHANGED notCache

\* line 138: os.rename raises; the statement is outside the try
RenameRaise(p) ==
    /\ pc[p] = "rename"
    /\ exc' = [exc EXCEPT ![p] = "OSError"]
    /\ pc' = [pc EXCEPT ![p] = "raised"]
    /\ UNCHANGED <<rel, sid, opened, nread, ret, files, dirs, tmp, calls, eofAt, before>>
    /\ UNCHANGED notCache

\* nothing converted
VerIdle ==
    /\ vorig = <<>>
    /\ vcur = Returned(<<>>)
    /\ vtrace = <<>>

\* no catalog call made
CatIdle ==
    /\ cpc = "idle"
    /\ caller = "none"
    /\ plat = [name |-> <<>>, version |-> <<>>, arch |-> <<>>]
    /\ token = <<>>
    /\ doc = <<>>
    /\ hrefs = <<>>
    /\ fetches = 0
    /\ cexc = "none"
    /\ versions = <<>>
    /\ picked = <<>>

\* no shell has read an activation script
ShIdle ==
    /\ shenv = [v \in ShellVars |-> Unset]
    /\ shexp = {}
    /\ shfn = FALSE
    /\ shst = "inactive"
    /\ nounset = FALSE
    /\ more = FALSE
    /\ shdest = <<"/">>
    /\ nsrc = 0
    /\ nsrcAll = 0
    /\ shenv0 = shenv
    /\ shenv1 = shenv

\* main has not been run
MainIdle ==
    /\ mpc = "idle"
    /\ runs = 0
    /\ margs = [dest |-> PyNone, ruby |-> LATEST, list_versions |-> FALSE]
    /\ mexit = None
    /\ mexc = "none"
    /\ lookups = 0
    /\ tars = [s \in Streams |-> Unread]
    /\ members = <<>>
    /\ names = <<>>
    /\ nextr = 0
    /\ dtree = {}
    /\ dact = [by |-> 0, more |-> FALSE]

Init ==
    /\ CacheInit
    /\ VerIdle
    /\ CatIdle
    /\ ShIdle
    /\ MainIdle

\* independent processes, their steps interleaved in any order
Next ==
    \E p \in Procs :
        \/ \E r \in RelPaths : calls < MaxRaceCalls /\ Call(p, r)
        \/ MakeDirs(p)
        \/ MkTemp(p)
        \/ OpenSrc(p)
        \/ OpenRaise(p)
        \/ CopyChunk(p)
        \/ CopyEOF(p)
        \/ CopyRaise(p)
        \/ Cleanup(p)
        \/ Rename(p)

Spec == Init /\ [][Next]_vars

\* the single caller of a sequential run
SeqCallers == {1}

\* a single caller: each call ends before the next one starts
NextSeq ==
    \E p \in SeqCallers :
        \/ \E r \in RelPaths : Call(p, r)
        \/ MakeDirs(p)
        \/ MkTemp(p)
        \/ OpenSrc(p)
        \/ OpenRaise(p)
        \/ CopyChunk(p)
        \/ CopyEOF(p)
        \/ CopyRaise(p)
        \/ Cleanup(p)
        \/ Rename(p)

SpecSeq == Init /\ [][NextSeq]_vars

\* a single caller on a filesystem whose operations may fail
NextFs ==
    \E p \in SeqCallers :
        \/ \E r \in RelPaths : CallNoting(p, r)
        \/ MakeDirs(p)
        \/ MkTemp(p)
        \/ MkTempRaise(p)
        \/ OpenSrc(p)
        \/ OpenRaise(p)
        \/ CopyChunk(p)
        \/ CopyEOF(p)
        \/ CopyRaise(p)
        \/ CloseRaise(p)
        \/ Cleanup(p)
        \/ Rename(p)
        \/ RenameRaise(p)

SpecFs == Init /\ [][NextFs]_vars

\* --------------------------------------------- file names and version strings
VerInit ==
    /\ vorig \in VerInputs
    /\ vcur = Returned(vorig)
    /\ vtrace = <<>>

\* _filename_to_version applied to the last value returned
FilenameToVersion ==
    /\ vcur.exc = "none"
    /\ Len(vtrace) < MaxOps
    /\ vcur' = _filename_to_version(vcur.val)
    /\ vtrace' = Append(vtrace, "f2v")
    /\ UNCHANGED <<vorig, cacheVars, catVars, shVars, mainVars>>

\* _version_to_filename applied to the last value returned
VersionToFilename ==
    /\ vcur.exc = "none"
    /\ Len(vtrace) < MaxOps
    /\ vcur' = Returned(_version_to_filename(vcur.val))
    /\ vtrace' = Append(vtrace, "v2f")
    /\ UNCHANGED <<vorig, cacheVars, catVars, shVars, mainVars>>

InitVer ==
    /\ CacheInitWith({})
    /\ VerInit
    /\ CatIdle
    /\ ShIdle
    /\ MainIdle

NextVer ==
    \/ FilenameToVersion
    \/ VersionToFilename

SpecVer == InitVer /\ [][NextVer]_vars

\* ------------------------------------------------------------- the catalog
\* get_prebuilt_versions(platform_info), lines 188-191: the page is fetched
\* and a new parser is about to be fed
GetPrebuiltVersions(pl) ==
    /\ cpc = "idle"
    /\ caller' = "list"
    /\ plat' = pl
    /\ fetches' = fetches + 1
    /\ doc' = <<>>
    /\ hrefs' = <<>>
    /\ cpc' = "feed"
    /\ UNCHANGED <<token, cexc, versions, picked, cacheVars, verVars, shVars, mainVars>>

\* pick_version(version), lines 216-221: 'latest' goes through
\* get_prebuilt_versions, any other token is made into a Version at once
PickVersion(pl, t) ==
    /\ cpc = "idle"
    /\ caller' = "pick"
    /\ plat' = pl
    /\ token' = t
    /\ IF t = LATEST
       THEN /\ fetches' = fetches + 1
            /\ doc' = <<>>
            /\ hrefs' = <<>>
            /\ cpc' = "feed"
            /\ picked' = picked
       ELSE /\ picked' = <<Version(t, _download_url(pl, t))>>
            /\ cpc' = "done"
            /\ UNCHANGED <<fetches, doc, hrefs>>
    /\ UNCHANGED <<cexc, versions, cacheVars, verVars, shVars, mainVars>>

\* parser.feed (line 191): the page's next start tag reaches handle_starttag
HandleStarttag(e) ==
    /\ cpc = "feed"
    /\ Len(doc) < MaxTags
    /\ doc' = Append(doc, e)
    /\ LET r == handle_starttag(hrefs, e.tag, e.attrs)
       IN  IF r.exc # "none"
           THEN /\ cexc' = r.exc
                /\ cpc' = "raised"
                /\ hrefs' = hrefs
           ELSE /\ hrefs' = r.val
                /\ UNCHANGED <<cexc, cpc>>
    /\ UNCHANGED <<caller, plat, token, fetches, versions, picked,
                   cacheVars, verVars, shVars, mainVars>>

\* lines 192-199, and line 219 for pick_version: the page has been fed, the
\* tuple is built and returned; pick_version returns its last element
FinishListing ==
    /\ cpc = "feed"
    /\ LET r == prebuilt_versions(rvm_url(plat), hrefs)
       IN  IF r.exc # "none"
           THEN /\ cexc' = r.exc
                /\ cpc' = "raised"
                /\ UNCHANGED <<versions, picked>>
           ELSE IF caller = "pick" /\ r.val = <<>>
           THEN /\ cexc' = "IndexError"
                /\ cpc' = "raised"
                /\ versions' = r.val
                /\ picked' = picked
           ELSE /\ versions' = r.val
                /\ picked' = IF caller = "pick" THEN <<r.val[Len(r.val)]>> ELSE picked
                /\ cpc' = "done"
                /\ cexc' = cexc
    /\ UNCHANGED <<caller, plat, token, doc, hrefs, fetches, cacheVars, verVars, shVars, mainVars>>

InitCat ==
    /\ CacheInitWith({})
    /\ VerIdle
    /\ CatIdle
    /\ ShIdle
    /\ MainIdle

NextCat ==
    \/ \E pl \in Platforms : GetPrebuiltVersions(pl)
    \/ \E pl \in Platforms, t \in Tokens : PickVersion(pl, t)
    \/ \E e \in TagEvents : HandleStarttag(e)
    \/ FinishListing

SpecCat == InitCat /\ [][NextCat]_vars

\* ------------------------------------------------------------------- main
\* what a run of main leaves alone, the catalog and the cache apart
notMain == <<verVars, shVars>>

\* one of the ways a run of main ends
Exits(status, what) ==
    /\ mexit' = status
    /\ mexc' = what
    /\ mpc' = "exited"

\* a check that lets every command line through
dest_given_always(a) == FALSE

\* line 283: not args.dest
dest_missing(a) == a.dest \in {PyNone, <<>>}

\* lines 270-289: the arguments are parsed; then list_versions up to its
\* fetch of the listing page, or parser.error, or pick_version up to its
\* fetch of the listing page or to its return
Main(a, pl) ==
    /\ mpc \in {"idle", "exited"}
    /\ runs < MaxRuns
    /\ runs' = runs + 1
    /\ margs' = a
    /\ plat' = pl
    /\ members' = <<>> /\ names' = <<>> /\ nextr' = 0
    /\ doc' = <<>> /\ hrefs' = <<>> /\ versions' = <<>> /\ cexc' = "none"
    /\ IF a.list_versions
       THEN /\ lookups' = 1 /\ fetches' = 1
            /\ caller' = "list" /\ token' = <<>> /\ picked' = <<>>
            /\ cpc' = "feed"
            /\ mpc' = "catalog" /\ mexit' = None /\ mexc' = "none"
       ELSE IF dest_missing(a)
       THEN /\ lookups' = 0 /\ fetches' = 0
            /\ caller' = "none" /\ token' = <<>> /\ picked' = <<>>
            /\ cpc' = "idle"
            /\ Exits("2", "DEST_DIR is required")
       ELSE IF a.ruby = SYSTEM
       THEN /\ lookups' = 0 /\ fetches' = 0
            /\ caller' = "none" /\ token' = <<>> /\ picked' = <<>>
            /\ cpc' = "idle"
            /\ mpc' = "system" /\ mexit' = None /\ mexc' = "none"
       ELSE IF a.ruby = LATEST
       THEN /\ lookups' = 1 /\ fetches' = 1
            /\ caller' = "pick" /\ token' = a.ruby /\ picked' = <<>>
            /\ cpc' = "feed"
            /\ mpc' = "catalog" /\ mexit' = None /\ mexc' = "none"
       ELSE /\ lookups' = 1 /\ fetches' = 0
            /\ caller' = "pick" /\ token' = a.ruby
            /\ picked' = <<Version(a.ruby, _download_url(pl, a.ruby))>>
            /\ cpc' = "done"
            /\ mpc' = "catalog" /\ mexit' = None /\ mexc' = "none"
    /\ UNCHANGED <<tars, dtree, dact, cacheVars, notMain>>

\* lines 205-213: get_prebuilt_versions has returned, the versions are
\* printed and list_versions returns 0
ListVersions ==
    /\ mpc = "catalog" /\ caller = "list" /\ cpc = "done"
    /\ Exits("0", "none")
    /\ UNCHANGED <<runs, margs, lookups, tars, members, names, nextr, dtree, dact>>
    /\ UNCHANGED <<catVars, cacheVars, notMain>>

\* an exception of get_prebuilt_versions or pick_version leaves main
CatalogRaised ==
    /\ mpc = "catalog" /\ cpc = "raised"
    /\ Exits("raised", cexc)
    /\ UNCHANGED <<runs, margs, lookups, tars, members, names, nextr, dtree, dact>>
    /\ UNCHANGED <<catVars, cacheVars, notMain>>

\* lines 230-237: make_environment up to the entry of ensure_cache_file
MakeEnvironment ==
    /\ mpc = "catalog" /\ caller = "pick" /\ cpc = "done"
    /\ lookups' = lookups + 1
    /\ Enter(1, cache_file(plat, picked[1].version))
    /\ mpc' = "ensure"
    /\ UNCHANGED <<runs, margs, mexit, mexc, tars, members, names, nextr, dtree, dact>>
    /\ UNCHANGED <<catVars, before, notMain>>

\* an exception of ensure_cache_file leaves main
EnsureRaised ==
    /\ mpc = "ensure" /\ pc[1] = "raised"
    /\ Exits("raised", exc[1])
    /\ UNCHANGED <<runs, margs, lookups, tars, members, names, nextr, dtree, dact>>
    /\ UNCHANGED <<catVars, cacheVars, notMain>>

\* lines 238-239: ensure_cache_file has returned; os.makedirs(dest)
MakeDest ==
    /\ mpc = "ensure" /\ pc[1] = "returned"
    /\ dtree' = dtree \cup {<<>>}
    /\ mpc' = "tar"
    /\ UNCHANGED <<runs, margs, mexit, mexc, lookups, tars, members, names, nextr, dact>>
    /\ UNCHANGED <<catVars, cacheVars, notMain>>

\* the stream whose bytes the file at the returned path holds
StreamOf(path) == files[path][1][1]

\* tarfile.open(tar_filename) has a readable archive before it
Readable(path) == files[path] # Absent /\ files[path] # <<>>

\* lines 240-255: the archive is opened, its members filtered and renamed
OpenArchive(ms) ==
    /\ mpc = "tar"
    /\ Readable(ret[1])
    /\ tars[StreamOf(ret[1])] \in {Unread, Archive(ms)}
    /\ tars' = [tars EXCEPT ![StreamOf(ret[1])] = Archive(ms)]
    /\ members' = ms
    /\ names' = extract_names(ms)
    /\ nextr' = 0
    /\ mpc' = "extract"
    /\ UNCHANGED <<runs, margs, mexit, mexc, lookups, dtree, dact>>
    /\ UNCHANGED <<catVars, cacheVars, notMain>>

\* line 240: tarfile.open raises: the path is a directory, the file is
\* empty, or its bytes are no archive
OpenArchiveRaise ==
    /\ mpc = "tar"
    /\ IF files[ret[1]] = Absent
       THEN Exits("raised", "IsADirectoryError") /\ tars' = tars
       ELSE /\ Exits("raised", "ReadError")
            /\ \/ files[ret[1]] = <<>> /\ tars' = tars
               \/ /\ Readable(ret[1])
                  /\ tars[StreamOf(ret[1])] \in {Unread, Bad}
                  /\ tars' = [tars EXCEPT ![StreamOf(ret[1])] = Bad]
    /\ UNCHANGED <<runs, margs, lookups, members, names, nextr, dtree, dact>>
    /\ UNCHANGED <<catVars, cacheVars, notMain>>

\* line 256: extractall extracts the next member, making its parents
ExtractMember ==
    /\ mpc = "extract"
    /\ nextr < Len(names)
    /\ dtree' = dtree \cup Ancestors(PathOf(names[nextr + 1]))
    /\ nextr' = nextr + 1
    /\ UNCHANGED <<mpc, runs, margs, mexit, mexc, lookups, tars, members, names, dact>>
    /\ UNCHANGED <<catVars, cacheVars, notMain>>

\* line 256: extractall raises at the next member
ExtractRaise ==
    /\ mpc = "extract"
    /\ nextr < Len(names)
    /\ Exits("raised", "OSError")
    /\ UNCHANGED <<runs, margs, lookups, tars, members, names, nextr, dtree, dact>>
    /\ UNCHANGED <<catVars, cacheVars, notMain>>

\* lines 257-258 and 224-227: bin/activate is written, 0 is returned; open
\* raises when dest has no bin directory
WriteActivate ==
    /\ mpc = "extract"
    /\ nextr = Len(names)
    /\ IF BIN_DIR \in dtree
       THEN /\ dact' = [by |-> runs, more |-> FALSE]
            /\ dtree' = dtree \cup {BIN_ACTIVATE}
            /\ Exits("0", "none")
       ELSE /\ Exits("raised", "FileNotFoundError")
            /\ UNCHANGED <<dact, dtree>>
    /\ UNCHANGED <<runs, margs, lookups, tars, members, names, nextr>>
    /\ UNCHANGED <<catVars, cacheVars, notMain>>

\* lines 261-267: make_system_environment; found: ruby and gem are on PATH
MakeSystemEnvironment(found) ==
    /\ mpc = "system"
    /\ IF found
       THEN /\ dtree' = dtree \cup Ancestors(BIN_DIR) \cup {BIN_ACTIVATE}
            /\ dact' = [by |-> runs, more |-> TRUE]
            /\ Exits("0", "none")
       ELSE /\ dtree' = dtree \cup Ancestors(BIN_DIR)
            /\ dact' = dact
            /\ Exits("raised", "AssertionError")
    /\ UNCHANGED <<runs, margs, lookups, tars, members, names, nextr>>
    /\ UNCHANGED <<catVars, cacheVars, notMain>>

\* the command lines main is run with
MainArgs == [dest : DestArgs, ruby : Rubies, list_versions : BOOLEAN]

NextMain ==
    \/ \E a \in MainArgs, pl \in MainPlatforms : Main(a, pl)
    \/ \E e \in MainTagEvents : HandleStarttag(e)
    \/ FinishListing
    \/ ListVersions
    \/ CatalogRaised
    \/ MakeEnvironment
    \/ MakeDirs(1)
    \/ MkTemp(1)
    \/ OpenSrc(1)
    \/ OpenRaise(1)
    \/ CopyChunk(1)
    \/ CopyEOF(1)
    \/ CopyRaise(1)
    \/ Cleanup(1)
    \/ Rename(1)
    \/ EnsureRaised
    \/ MakeDest
    \/ \E ms \in MainArchives : OpenArchive(ms)
    \/ OpenArchiveRaise
    \/ ExtractMember
    \/ ExtractRaise
    \/ WriteActivate
    \/ \E found \in BOOLEAN : MakeSystemEnvironment(found)

SpecMain == Init /\ [][NextMain]_vars

\* -------------------------------------------------- archives of any names
\* archives of up to MaxMembers members
Archives ==
    UNION {[1..k -> MemberNames(MaxDepth)] : k \in 0..MaxMembers}

\* the version and the platform of the run that SpecTar starts in
TarVersion == <<"2">>
TarPlatform == CHOOSE pl \in MainPlatforms : TRUE
TarPath == cache_file(TarPlatform, TarVersion)

\* main --ruby 2 /v at line 240 of make_environment, in its first run on an
\* empty cache: the archive, of one chunk, is committed and dest is made
AtTarOpen ==
    /\ pc = [p \in Procs |-> IF p = 1 THEN "returned" ELSE "idle"]
    /\ rel = [p \in Procs |-> IF p = 1 THEN TarPath ELSE <<>>]
    /\ sid = [p \in Procs |-> IF p = 1 THEN 1 ELSE 0]
    /\ opened = [p \in Procs |-> IF p = 1 THEN 1 ELSE 0]
    /\ nread = [p \in Procs |-> IF p = 1 THEN 1 ELSE 0]
    /\ exc = [p \in Procs |-> "none"]
    /\ ret = [p \in Procs |-> IF p = 1 THEN TarPath ELSE None]
    /\ files = [r \in CachePaths |-> IF r = TarPath THEN <<<<1, 1>>>> ELSE Absent]
    /\ dirs = Ancestors(dirname(TarPath)) \cup Ancestors(tmpdir)
    /\ tmp = [s \in Streams |-> Absent]
    /\ calls = 1
    /\ eofAt = [s \in Streams |-> IF s = 1 THEN 1 ELSE -1]
    /\ before = [p \in Procs |-> Tree([r \in CachePaths |-> Absent], {},
                                      [s \in Streams |-> Absent])]
    /\ cpc = "done" /\ caller = "pick" /\ plat = TarPlatform /\ token = TarVersion
    /\ doc = <<>> /\ hrefs = <<>> /\ fetches = 0 /\ cexc = "none" /\ versions = <<>>
    /\ picked = <<Version(TarVersion, _download_url(TarPlatform, TarVersion))>>
    /\ mpc = "tar" /\ runs = 1
    /\ margs = [dest |-> <<"/", "v">>, ruby |-> TarVersion, list_versions |-> FALSE]
    /\ mexit = None /\ mexc = "none" /\ lookups = 2
    /\ tars = [s \in Streams |-> Unread]
    /\ members = <<>> /\ names = <<>> /\ nextr = 0
    /\ dtree = {<<>>}
    /\ dact = [by |-> 0, more |-> FALSE]

InitTar ==
    /\ AtTarOpen
    /\ VerIdle
    /\ ShIdle

NextTar ==
    \/ mpc = "tar" /\ \E ms \in Archives : OpenArchive(ms)
    \/ OpenArchiveRaise
    \/ ExtractMember
    \/ ExtractRaise
    \/ WriteActivate

SpecTar == InitTar /\ [][NextTar]_vars

\* ------------------------------------------------- the activation script
\* the invoking shell before it reads bin/activate for the first time:
\* inactive, PATH and GEM_HOME exported when set
ShInit ==
    /\ \E pa \in PathValues, ps \in Ps1Values, gh \in GemHomeValues :
          shenv = [v \in ShellVars |->
                     IF v = "PATH" THEN pa
                     ELSE IF v = "PS1" THEN ps
                     ELSE IF v = "GEM_HOME" THEN gh
                     ELSE Unset]
    /\ shexp = {v \in {"PATH", "GEM_HOME"} : shenv[v] # Unset}
    /\ shfn = FALSE
    /\ shst = "inactive"
    /\ nounset \in BOOLEAN
    /\ more \in BOOLEAN
    /\ shdest \in Dests
    /\ nsrc = 0
    /\ nsrcAll = 0
    /\ shenv0 = shenv
    /\ shenv1 = shenv

\* source bin/activate
SourceActivate ==
    /\ nsrcAll < MaxSourcings
    /\ LET r == ACTIVATE(Shell(shenv, shexp, shfn), shdest, more, nounset)
           first == shst = "inactive"
       IN  /\ shenv' = r.sh.env
           /\ shexp' = r.sh.exported
           /\ shfn' = r.sh.fn
           /\ shst' = IF r.aborted THEN "aborted" ELSE "active"
           /\ nsrc' = IF first THEN 1 ELSE nsrc + 1
           /\ shenv0' = IF first THEN shenv ELSE shenv0
           /\ shenv1' = IF first THEN r.sh.env ELSE shenv1
    /\ nsrcAll' = nsrcAll + 1
    /\ UNCHANGED <<nounset, more, shdest>>
    /\ UNCHANGED <<cacheVars, verVars, catVars, mainVars>>

\* deactivate_rubyvenv, called without an argument
DeactivateRubyvenv ==
    /\ shfn
    /\ LET r == deactivate_rubyvenv(Shell(shenv, shexp, shfn), "")
       IN  /\ shenv' = r.env
           /\ shexp' = r.exported
           /\ shfn' = r.fn
    /\ shst' = "inactive"
    /\ UNCHANGED <<nounset, more, shdest, nsrc, nsrcAll, shenv0, shenv1>>
    /\ UNCHANGED <<cacheVars, verVars, catVars, mainVars>>

InitSh ==
    /\ CacheInitWith({})
    /\ VerIdle
    /\ CatIdle
    /\ ShInit
    /\ MainIdle

NextSh ==
    \/ SourceActivate
    \/ DeactivateRubyvenv

SpecSh == InitSh /\ [][NextSh]_vars

\* ------------------------------------------------------------------ claims

\* the complete byte sequence some source stream delivered
IsCompleteStream(content) ==
    \E s \in Streams : eofAt[s] >= 0 /\ content = Chunks(s, eofAt[s])

NoTempFile == \A s \in Streams : tmp[s] = Absent

SourceErrors == {"OpenError", "BoomError"}

C1_Inv ==
    \A r \in RelPaths : files[r] # Absent => IsCompleteStream(files[r])

C1_Step ==
    \A r \in RelPaths :
        files'[r] # files[r] =>
            \E p \in Procs :
                /\ pc[p] = "rename" /\ pc'[p] = "returned" /\ rel[p] = r
                /\ tmp[dstName(p)] # Absent
                /\ files'[r] = tmp[dstName(p)]

\* C1: with callers interleaved in any way, in every state a file at a final
\* path holds the complete chunk sequence of one source stream, and a final
\* path only ever changes by one rename of a temp file onto it.
C1_FinalPathComplete == []C1_Inv /\ [][C1_Step]_vars

\* C1 witness: a file is committed while another caller holds a partly
\* written temp file.
C1_Witness ==
    \E r \in RelPaths, p \in Procs :
        /\ files[r] # Absent
        /\ pc[p] = "copy" /\ nread[p] >= 1
        /\ tmp[dstName(p)] = Chunks(sid[p], nread[p])

\* C2: a call whose source raised never returns; once it has raised, the
\* exception is the source's, the final path does not exist and the staging
\* directory holds no file.
C2_SourceFailureLeavesNothing ==
    \A p \in SeqCallers :
        /\ exc[p] # "none" => pc[p] \in {"except", "raised"}
        /\ pc[p] = "raised" =>
              /\ exc[p] \in SourceErrors
              /\ files[rel[p]] = Absent
              /\ NoTempFile

\* C2 witness: the source raised after delivering a chunk and the call has
\* raised; another: the opener itself raised.
C2_Witness ==
    \E p \in SeqCallers :
        /\ pc[p] = "raised" /\ exc[p] = "BoomError" /\ nread[p] >= 1
        /\ files[rel[p]] = Absent

C3_Step ==
    \A p \in SeqCallers :
        (sid'[p] # sid[p] /\ files[rel'[p]] # Absent) =>
            /\ pc'[p] = "returned"
            /\ ret'[p] = rel'[p]
            /\ opened'[p] = 0
            /\ files' = files /\ tmp' = tmp /\ dirs' = dirs

\* C3: a call made while a file exists at the final path returns that path
\* in its one step, without invoking the opener and leaving every file,
\* temp file and directory as it was; a returned call that did not open the
\* source finds the file in place.
C3_ExistingFileReturned ==
    /\ [][C3_Step]_vars
    /\ [](\A p \in SeqCallers :
            pc[p] = "returned" /\ opened[p] = 0 =>
                ret[p] = rel[p] /\ files[rel[p]] # Absent /\ NoTempFile)

\* C3 witness: a call has returned without opening its source, the file of
\* an earlier call in place.
C3_Witness ==
    \E p \in SeqCallers :
        /\ pc[p] = "returned" /\ opened[p] = 0
        /\ sid[p] >= 2 /\ files[rel[p]] # Absent

\* C4: a call fails only when its source raised; a call that opened its
\* source and returned opened it once, returned the final path, finds every
\* parent directory in place, the file holding exactly the chunks the source
\* delivered up to its end, and no file in the staging directory.
C4_MissDownloadsAndCommits ==
    \A p \in SeqCallers :
        /\ pc[p] = "raised" => exc[p] \in SourceErrors
        /\ pc[p] \in {"copy", "rename"} => opened[p] = 1 /\ exc[p] = "none"
        /\ pc[p] = "returned" /\ opened[p] >= 1 =>
              /\ opened[p] = 1
              /\ ret[p] = rel[p]
              /\ Ancestors(dirname(rel[p])) \subseteq dirs
              /\ eofAt[sid[p]] = nread[p]
              /\ files[rel[p]] = Chunks(sid[p], nread[p])
              /\ NoTempFile

\* C4 witness: a call for dir/test.txt has committed a stream of at least
\* one chunk.
C4_Witness ==
    \E p \in SeqCallers :
        /\ pc[p] = "returned" /\ opened[p] = 1 /\ nread[p] >= 1
        /\ rel[p] = <<DIR, TEST_TXT>>
        /\ files[rel[p]] = Chunks(sid[p], nread[p])

C5_Inv ==
    \A p \in SeqCallers :
        /\ pc[p] = "raised" => opened[p] = 1 /\ files[rel[p]] = Absent
        /\ pc[p] = "returned" /\ opened[p] >= 1 =>
              files[rel[p]] = Chunks(sid[p], nread[p])
        /\ pc[p] = "returned" /\ opened[p] = 0 => files[rel[p]] # Absent

C5_Step ==
    \A r \in RelPaths :
        files[r] # Absent =>
            /\ files'[r] = files[r]
            /\ \A p \in SeqCallers : rel[p] = r => opened'[p] <= opened[p]

\* C5: in a sequence of calls, a call that fails has invoked the opener and
\* leaves the final path absent, a call that downloads commits its bytes,
\* and once a file is at a final path no step changes it or invokes the
\* opener for it.
C5_DownloadedOnce == []C5_Inv /\ [][C5_Step]_vars

\* C5 witness: the first call failed, the second committed, and the third
\* returned the committed file without opening its source.
C5_Witness ==
    \E p \in SeqCallers :
        /\ calls = 3 /\ sid[p] = 3 /\ pc[p] = "returned" /\ opened[p] = 0
        /\ eofAt[1] = -1 /\ eofAt[2] >= 1
        /\ files[rel[p]] = Chunks(2, eofAt[2])

\* the fixed prefix/suffix convention of archive file names
WellFormed(f) == startswith(f, PREFIX) /\ endswith(f, SUFFIX)

\* C6: _filename_to_version returns for every well-formed file name, and
\* _version_to_filename gives the file name back; _filename_to_version gives
\* back every string (the empty one too) that _version_to_filename wrapped.
C6_ExactInverses ==
    /\ (vtrace = <<"f2v">> /\ WellFormed(vorig)) => vcur.exc = "none"
    /\ (vtrace = <<"f2v", "v2f">> /\ WellFormed(vorig)) => vcur = Returned(vorig)
    /\ vtrace = <<"v2f", "f2v">> => vcur = Returned(vorig)

\* C6 witness: a well-formed file name with a non-empty version went
\* through both conversions and came back.
C6_Witness ==
    /\ vtrace = <<"f2v", "v2f">>
    /\ WellFormed(vorig) /\ Len(vorig) > Len(PREFIX) + Len(SUFFIX)
    /\ vcur = Returned(vorig)

\* C7: _filename_to_version raises AssertionError and returns nothing for
\* every string that does not start with 'ruby-' or does not end with
\* '.tar.bz2'.
C7_MalformedNameAsserts ==
    (vtrace = <<"f2v">> /\ ~WellFormed(vorig)) => vcur = Raised("AssertionError")

\* C7 witness: a name with the suffix but without the whole prefix was
\* refused.
C7_Witness ==
    /\ vtrace = <<"f2v">>
    /\ endswith(vorig, SUFFIX) /\ ~startswith(vorig, PREFIX)
    /\ Len(vorig) >= Len(PREFIX) + Len(SUFFIX)
    /\ vcur = Raised("AssertionError")

\* the anchor start tags of a page, in document order
AnchorsOf(d) == SelectSeq(d, LAMBDA e : e.tag = "a")

HasHref(e) == \E i \in DOMAIN e.attrs : e.attrs[i][1] = "href"

\* the link target of an anchor that has one: the value of its href
\* attribute, of the last one when the attribute is repeated; PyNone when
\* the attribute is bare
HrefOf(e) ==
    LET at == {i \in DOMAIN e.attrs : e.attrs[i][1] = "href"}
    IN  e.attrs[CHOOSE i \in at : \A j \in at : j <= i][2]

\* the link target, PyNone for an anchor without any
LinkTarget(e) == IF HasHref(e) THEN HrefOf(e) ELSE PyNone

\* one entry per anchor start tag
ExpectedHrefs(d) ==
    [i \in 1..Len(AnchorsOf(d)) |-> LinkTarget(AnchorsOf(d)[i])]

\* href without the 'ruby-' in front and the '.tar.bz2' at the end
WithoutAffixes(href) ==
    LET a == IF startswith(href, PREFIX)
             THEN SubSeq(href, Len(PREFIX) + 1, Len(href)) ELSE href
    IN  IF endswith(a, SUFFIX) THEN SubSeq(a, 1, Len(a) - Len(SUFFIX)) ELSE a

\* one Version per anchor whose href starts with 'ruby-', in document order
ExpectedVersions(url, d) ==
    LET hs == SelectSeq(ExpectedHrefs(d),
                        LAMBDA h : h # PyNone /\ startswith(h, PREFIX))
    IN  [i \in 1..Len(hs) |-> Version(WithoutAffixes(hs[i]), urljoin(url, hs[i]))]

ListingReturned == caller = "list" /\ cpc = "done"
ListingEnded == caller = "list" /\ cpc \in {"done", "raised"}

\* every anchor has an href attribute, and every href that starts with
\* 'ruby-' ends with '.tar.bz2'
ArchivePage(d) ==
    \A i \in DOMAIN d :
        d[i].tag = "a" =>
            /\ HasHref(d[i])
            /\ (HrefOf(d[i]) # PyNone /\ startswith(HrefOf(d[i]), PREFIX))
                  => endswith(HrefOf(d[i]), SUFFIX)

\* C8 as stated: for every listing page get_prebuilt_versions returns, in
\* document order and with duplicates, one Version per anchor whose href
\* starts with 'ruby-'.
C8_Original ==
    ListingEnded =>
        /\ cpc = "done"
        /\ versions = ExpectedVersions(rvm_url(plat), doc)

\* C8 amended: for every listing page whose anchors all have an href
\* attribute and whose hrefs starting with 'ruby-' all end with '.tar.bz2',
\* get_prebuilt_versions returns, in document order and with duplicates,
\* one Version per anchor whose href starts with 'ruby-' (the href without
\* prefix and suffix, and the listing URL joined with the href); other
\* anchors contribute nothing and nothing is re-sorted.
C8_ArchivePageListed ==
    (caller = "list" /\ ArchivePage(doc)) =>
        /\ cpc # "raised"
        /\ cpc = "done" => versions = ExpectedVersions(rvm_url(plat), doc)

\* C8 witness: a page listing '../', ruby-2 and then ruby-1 was returned as
\* the two versions 2 and 1, in that order.
C8_Witness ==
    /\ ListingReturned
    /\ ExpectedHrefs(doc) = <<HREF_UP, HREF_2, HREF_1>>
    /\ Len(versions) = 2
    /\ versions[1].version = <<"2">> /\ versions[2].version = <<"1">>
    /\ versions[1].url = rvm_url(plat) \o HREF_2

\* C9 as stated: pick_version('latest') returns the last record of the
\* catalog; for any other token it returns Version(token, listing URL +
\* 'ruby-' + token + '.tar.bz2') without a fetch.
C9_Original ==
    (caller = "pick" /\ cpc = "done") =>
        IF token = LATEST
        THEN versions # <<>> /\ picked = <<versions[Len(versions)]>>
        ELSE /\ picked = <<Version(token, rvm_url(plat) \o PREFIX \o token \o SUFFIX)>>
             /\ fetches = 0

\* C10 as stated: after feeding any document, hrefs holds one entry per
\* anchor start tag, in document order, each the anchor's link target, a
\* string and never absent.
C10_Original ==
    caller = "list" =>
        /\ cexc # "KeyError"
        /\ hrefs = ExpectedHrefs(doc)
        /\ \A i \in DOMAIN hrefs : hrefs[i] # PyNone

\* every anchor start tag has an href attribute with a value
AnchorsHaveTargets(d) ==
    \A i \in DOMAIN d : d[i].tag = "a" => HasHref(d[i]) /\ HrefOf(d[i]) # PyNone

\* C10 amended: after feeding any document whose anchor start tags all have
\* an href attribute with a value, hrefs holds one entry per anchor start
\* tag, in document order and with duplicates, each that anchor's link
\* target as a string (possibly empty; the last href when the attribute is
\* repeated); other start tags add nothing, no anchors give the empty list.
C10_AnchorTargetsCollected ==
    (caller = "list" /\ AnchorsHaveTargets(doc)) =>
        /\ cexc # "KeyError"
        /\ hrefs = ExpectedHrefs(doc)
        /\ \A i \in DOMAIN hrefs : hrefs[i] # PyNone

\* C10 witness: a page with a link tag and the same anchor twice has been
\* fed, and hrefs holds that anchor's target twice.
C10_Witness ==
    /\ caller = "list" /\ cpc = "feed"
    /\ Len(doc) = 3 /\ Len(AnchorsOf(doc)) = 2
    /\ hrefs = <<HREF_1, HREF_1>>

\* the shell variables in which bin/activate keeps the previous values
Backups == {"_OLD_RUBYVENV_PATH", "_OLD_RUBYVENV_PS1", "_OLD_RUBYVENV_GEM_HOME"}

\* bin/activate was sourced and has run to its end
Activated == shst = "active"

\* deactivate_rubyvenv has run after bin/activate was sourced
Deactivated == shst = "inactive" /\ nsrc >= 1

\* nothing of the activation is left in the shell
NothingLeft ==
    /\ shenv["RUBYVENV"] = Unset
    /\ \A b \in Backups : shenv[b] = Unset
    /\ ~shfn

\* C11: from an inactive shell in which PATH and PS1 have values, one
\* sourcing of bin/activate runs to its end, sets RUBYVENV to the destination
\* and PATH to <dest>/bin, <dest>/lib/gems/bin and the previous PATH;
\* deactivate_rubyvenv then gives PATH and PS1 the values they had before,
\* unsets RUBYVENV and the three backups and removes the function.
C11_ActivateThenDeactivate ==
    (nsrc = 1 /\ shenv0["PATH"] # Unset /\ shenv0["PS1"] # Unset) =>
        /\ shst # "aborted"
        /\ Activated =>
              /\ shenv["RUBYVENV"] = shdest
              /\ shenv["PATH"] = shdest \o BIN \o <<":">> \o shdest \o GEMS_BIN
                                   \o <<":">> \o shenv0["PATH"]
              /\ shfn
        /\ Deactivated =>
              /\ shenv["PATH"] = shenv0["PATH"]
              /\ shenv["PS1"] = shenv0["PS1"]
              /\ NothingLeft

\* C11 witness: a shell with PATH=/usr/bin and PS1='$ ' has sourced the
\* script of a destination with a quote in its name once and deactivated.
C11_Witness ==
    /\ Deactivated /\ nsrc = 1
    /\ shdest = <<"/", "v", "'", "e">>
    /\ shenv0["PS1"] = <<"$", " ">> /\ shenv["PS1"] = <<"$", " ">>
    /\ shenv0["PATH"] # Unset /\ shenv["PATH"] = shenv0["PATH"]
    /\ Len(shenv["PATH"]) > 0

\* C12: however often bin/activate was sourced in a row, the shell variables
\* (PATH, PS1, RUBYVENV, GEM_HOME and the three backups) are what they were
\* after the first sourcing; deactivate_rubyvenv then gives each of PATH,
\* PS1 and GEM_HOME that had a value before the first sourcing that value
\* and leaves nothing of the activation.
C12_ResourcingIdempotent ==
    /\ (shst # "inactive" /\ nsrc >= 1) => shenv = shenv1
    /\ Deactivated =>
          /\ \A v \in {"PATH", "PS1", "GEM_HOME"} :
                shenv0[v] # Unset => shenv[v] = shenv0[v]
          /\ NothingLeft

\* C12 witness: the script with the GEM_HOME statements was sourced three
\* times in a row and deactivate_rubyvenv has brought back PATH and GEM_HOME.
C12_Witness ==
    /\ Deactivated /\ nsrc = MaxSourcings /\ more
    /\ shenv0["PATH"] # Unset /\ shenv["PATH"] = shenv0["PATH"]
    /\ shenv0["GEM_HOME"] = <<"/", "g">> /\ shenv["GEM_HOME"] = <<"/", "g">>
    /\ shenv1["PATH"] = shdest \o BIN \o <<":">> \o shdest \o GEMS_BIN
                          \o <<":">> \o shenv0["PATH"]

\* C20 as stated: in system mode, whatever GEM_HOME was before (unset, empty
\* or not), a sourcing that ran to its end set GEM_HOME to <dest>/lib/gems,
\* and deactivate_rubyvenv leaves GEM_HOME as it was before the sourcing and
\* _OLD_RUBYVENV_GEM_HOME unset.
C20_Original ==
    more =>
        /\ Activated => shenv["GEM_HOME"] = shdest \o GEMS
        /\ Deactivated =>
              /\ shenv["GEM_HOME"] = shenv0["GEM_HOME"]
              /\ shenv["_OLD_RUBYVENV_GEM_HOME"] = Unset

\* C14 as stated: with callers interleaved in any way, a file that is
\* present at a final path is not modified, replaced or deleted by any step.
C14_Original ==
    [][\A r \in RelPaths : files[r] # Absent => files'[r] = files[r]]_vars

\* the call of p has created its temp file
TempCreated(p) == pc[p] \in {"open", "copy", "except", "rename"}

\* C15 as stated: a call that failed in a step after its temp file was
\* created (opening the source, copying, closing, renaming) raised the
\* failure and left no file in the staging directory.
C15_Original ==
    [][\A p \in SeqCallers :
          (TempCreated(p) /\ pc'[p] = "raised") =>
              /\ exc'[p] # "none"
              /\ \A t \in Streams : tmp'[t] = Absent]_vars

\* the call of p failed by an exception raised while copying source bytes
CopyFailed(p) == pc[p] = "raised" /\ exc[p] = "BoomError"

\* the directories under the cache directory
Under(ds) == ds \ {<<>>}

\* C16 as stated: after a call that failed while copying, the files and the
\* directories under the cache root are those from before the call.
C16_Original ==
    \A p \in SeqCallers :
        CopyFailed(p) =>
            /\ files = before[p].files
            /\ tmp = before[p].tmp
            /\ Under(dirs) = Under(before[p].dirs)

\* C16 amended: after a call that failed while copying, the files under the
\* cache root, the staging directory included, are those from before the
\* call with their contents, and the directories are those from before the
\* call together with the parents of the path and the staging directory.
C16_CopyFailureKeepsFiles ==
    \A p \in SeqCallers :
        CopyFailed(p) =>
            /\ files = before[p].files
            /\ tmp = before[p].tmp
            /\ dirs = before[p].dirs \cup Ancestors(dirname(rel[p])) \cup Ancestors(tmpdir)

\* C16 witness: the second call, for dir/test.txt, failed after a chunk was
\* copied; the file of the first call is in place and the directory dir,
\* which was not there before the call, exists.
C16_Witness ==
    \E p \in SeqCallers :
        /\ CopyFailed(p) /\ nread[p] >= 1 /\ sid[p] = 2
        /\ rel[p] = <<DIR, TEST_TXT>>
        /\ files[<<TEST_TXT>>] # Absent
        /\ <<DIR>> \in dirs /\ <<DIR>> \notin before[p].dirs


\* -------------------------------------------------------------------- C13
\* the cache and the destination, as a run of main finds them
Disk == <<files, dirs, tmp, dtree, dact>>

\* C13: a run of main with no DEST_DIR and without --list-versions ends at
\* once with status 2 and the message 'DEST_DIR is required', before any
\* platform lookup, any fetch and any change of the cache or of a
\* destination; a run with --list-versions never ends with the usage error,
\* with or without DEST_DIR, and changes neither the cache nor a destination
C13_UsageErrorNoEffects ==
    [][/\ (~margs'.list_versions /\ margs'.dest \in {PyNone, <<>>}) =>
             /\ mpc' = "exited" /\ mexit' = "2" /\ mexc' = "DEST_DIR is required"
             /\ lookups' = 0 /\ fetches' = 0 /\ opened' = opened
             /\ Disk' = Disk
       /\ margs'.list_versions =>
             /\ mexc' # "DEST_DIR is required" /\ mexit' # "2"
             /\ Disk' = Disk]_vars

\* the second run of main has no DEST_DIR and ended with the usage error,
\* the first one had installed an environment
C13_Witness ==
    /\ runs = 2 /\ mpc = "exited"
    /\ ~margs.list_versions /\ margs.dest = PyNone
    /\ mexit = "2"
    /\ dact.by = 1 /\ BIN_ACTIVATE \in dtree

\* -------------------------------------------------------------------- C17
\* the components of a member path
ComponentsOf(name) == Split(name, "/")

\* the path without its first segment
WithoutFirstSegment(name) == Join(Tail(ComponentsOf(name)), "/")

\* the trailing component is 'cache', or 'cache' is a component between two
\* separators
DroppedByComponent(name) ==
    LET cs == ComponentsOf(name)
    IN  \/ cs[Len(cs)] = CACHE
        \/ \E i \in 2..(Len(cs) - 1) : cs[i] = CACHE

\* 'cache' is a component other than the first one
DroppedAfterSeparator(name) ==
    LET cs == ComponentsOf(name)
    IN  \E i \in 2..Len(cs) : cs[i] = CACHE

\* the names handed to extractall, given which members are dropped
NamesWhen(Dropped(_), ms) ==
    LET kept == SelectSeq(ms, LAMBDA m : ~Dropped(m))
    IN  [i \in 1..Len(kept) |-> WithoutFirstSegment(kept[i])]

\* the archive has been opened and its members filtered
Filtered == mpc = "extract" \/ (mpc = "exited" /\ mexc \in {"OSError", "FileNotFoundError", "none"})

\* what the first k of the names leave in a destination that was empty
Extracted(ns, k) == {<<>>} \cup UNION {Ancestors(PathOf(ns[i])) : i \in 1..k}

\* C17 as stated: a member is dropped exactly if its trailing component is
\* 'cache' or it has a '/cache/' component; the others are extracted under
\* their path without its first segment, a path without separator as ''
C17_Original ==
    Filtered => names = NamesWhen(DroppedByComponent, members)

\* C17: a member is dropped exactly if its path ends with '/cache' or
\* contains '/cache/', that is if a component after the first is 'cache'; a
\* member named 'cache' alone is kept; the kept members are extracted in
\* order under their path without its first segment, a path without
\* separator as the destination itself
C17_DroppedAfterSeparator ==
    Filtered =>
        /\ names = NamesWhen(DroppedAfterSeparator, members)
        /\ dtree \ {BIN_ACTIVATE} = Extracted(names, nextr)

\* an archive of the wrapper directory 'cache' and of r/cache/r is
\* extracted: the first is kept as the destination, the second is dropped
C17_Witness ==
    /\ mpc = "exited" /\ nextr = Len(names)
    /\ members = <<CACHE, <<"r", "/", "c", "a", "c", "h", "e", "/", "r">>>>
    /\ names = <<<<>>>>

\* -------------------------------------------------------------------- C18
\* C18: nothing that make_environment extracts into the destination has a
\* path component 'cache', whatever the member paths of the archive are
C18_NoCacheComponent ==
    /\ \A i \in DOMAIN names : \A c \in DOMAIN PathOf(names[i]) :
           PathOf(names[i])[c] # CACHE
    /\ \A path \in dtree : \A c \in DOMAIN path : path[c] # CACHE

\* an archive with a cache directory below its wrapper directory has been
\* extracted
C18_Witness ==
    /\ mpc = "exited" /\ mexc = "none" /\ nextr = Len(names)
    /\ members = <<<<"r", "/", "b", "i", "n">>, <<"r", "/", "c", "a", "c", "h", "e">>>>
    /\ BIN_ACTIVATE \in dtree

\* -------------------------------------------------------------------- C19
\* the run is in make_environment
Installing == ~margs.list_versions /\ margs.ruby # SYSTEM /\ ~dest_missing(margs)

\* C19 as stated: while make_environment runs, the destination is only made
\* or written when the archive is committed in the cache, and bin/activate
\* only when all kept members are extracted; a failed download leaves the
\* destination as it was, a failed extraction writes no bin/activate and
\* removes nothing, and status 0 means that the cache entry exists and that
\* this run wrote bin/activate
C19_Original ==
    [][Installing' /\ runs' = runs =>
          /\ dtree' # dtree \/ dact' # dact =>
                /\ files[rel[1]] # Absent /\ IsCompleteStream(files[rel[1]])
                /\ files' = files
          /\ dact' # dact => mpc = "extract" /\ nextr = Len(names)
          /\ mpc = "ensure" /\ mpc' = "exited" => dtree' = dtree /\ dact' = dact
          /\ mpc = "extract" /\ mexit' = "raised" =>
                dact' = dact /\ dtree' = dtree
          /\ mexit' = "0" =>
                files'[rel'[1]] # Absent /\ dact'.by = runs' /\ BIN_ACTIVATE \in dtree'
      ]_vars

=============================================================================
